---- MODULE Spec2Model ----
(***************************************************************************)
(* MAC estimation of source/macs.js (macs.Calculator).                     *)
(*                                                                         *)
(* JavaScript values are tagged records, so that a missing property, null, *)
(* a string, a number and an object stay distinguishable:                  *)
(*   Undefined            undefined / null / a missing property            *)
(*   Number(n)            a number                                         *)
(*   String(s)            a string, s the sequence of its characters       *)
(*   Array(s)             an array with the elements of the sequence s     *)
(*   Long(n)              an object with a toNumber() method returning n   *)
(*   Object               any other object                                 *)
(* Null is the null calculate returns, Throw a thrown TypeError.           *)
(***************************************************************************)
EXTENDS Integers, Sequences, FiniteSets, TLC

VARIABLES node, result, prev, pc

vars == <<node, result, prev, pc>>

(* ------------------------------ bounds --------------------------------- *)

\* the longest dimension list of an operand
MaxRank == 3

(* --------------------------- JavaScript values -------------------------- *)

Undefined == [k |-> "undefined"]
Null == [k |-> "null"]
Throw == [k |-> "throw"]
Object == [k |-> "object"]
Number(n) == [k |-> "number", v |-> n]
String(s) == [k |-> "string", v |-> s]
Array(s) == [k |-> "array", v |-> s]
Long(n) == [k |-> "long", v |-> n]

\* Array.isArray
IsArray(x) == x.k = "array"

(* ------------------------------ strings --------------------------------- *)

UpperCase == <<"A", "B", "C", "D", "E", "F", "G", "H", "I", "J", "K", "L", "M",
               "N", "O", "P", "Q", "R", "S", "T", "U", "V", "W", "X", "Y", "Z">>
LowerCase == <<"a", "b", "c", "d", "e", "f", "g", "h", "i", "j", "k", "l", "m",
               "n", "o", "p", "q", "r", "s", "t", "u", "v", "w", "x", "y", "z">>

ToLowerChar(c) ==
    IF \E i \in 1..Len(UpperCase) : UpperCase[i] = c
    THEN LowerCase[CHOOSE i \in 1..Len(UpperCase) : UpperCase[i] = c]
    ELSE c

\* String.prototype.toLowerCase
toLowerCase(s) == [i \in 1..Len(s) |-> ToLowerChar(s[i])]

\* s.split('::').pop(): the separators are found scanning from the left,
\* without overlap; the result is what follows the last one found.
RECURSIVE SplitScan(_, _, _)
SplitScan(s, i, start) ==
    IF i + 1 > Len(s) THEN SubSeq(s, start, Len(s))
    ELSE IF s[i] = ":" /\ s[i + 1] = ":" THEN SplitScan(s, i + 2, i + 2)
    ELSE SplitScan(s, i + 1, start)

splitPop(s) == SplitScan(s, 1, 1)

\* the name compared as spelled, without toLowerCase
normalizeCaseSensitive(s) == splitPop(s)

\* const name = type.split('::').pop().toLowerCase();
normalize(s) == toLowerCase(splitPop(s))

conv == <<"c", "o", "n", "v">>
conv1d == <<"c", "o", "n", "v", "1", "d">>
conv2d == <<"c", "o", "n", "v", "2", "d">>
conv3d == <<"c", "o", "n", "v", "3", "d">>
convolution == <<"c", "o", "n", "v", "o", "l", "u", "t", "i", "o", "n">>
linear == <<"l", "i", "n", "e", "a", "r">>
gemm == <<"g", "e", "m", "m">>
matmul == <<"m", "a", "t", "m", "u", "l">>

(* ------------------------------ arithmetic ------------------------------ *)

\* shape.reduce((a, b) => a * b, 1)
RECURSIVE reduceProduct(_)
reduceProduct(s) == IF Len(s) = 0 THEN 1 ELSE Head(s) * reduceProduct(Tail(s))

\* the division by the output channels left out
DivideOmitted(a, b) == a

\* a / b on numbers; every quotient the code forms is that of a product of
\* integers by one of its non-zero factors, so it is exact.
Divide(a, b) == IF (a < 0) = (b < 0) \/ a = 0
                THEN (IF a < 0 THEN -a ELSE a) \div (IF b < 0 THEN -b ELSE b)
                ELSE -((IF a < 0 THEN -a ELSE a) \div (IF b < 0 THEN -b ELSE b))

(* --------------------------- _getTensorShape ---------------------------- *)

\* an unknown dimension counted as 0
cleanDimZero(d) ==
    IF d.k = "number" THEN d.v
    ELSE IF d.k = "long" THEN d.v
    ELSE 0

\* dims.map(d => ...): one dimension to a number
cleanDim(d) ==
    IF d.k = "number" THEN d.v
    ELSE IF d.k = "long" THEN d.v
    ELSE 1

_getTensorShape(parameter) ==
    IF parameter = Undefined THEN Null
    ELSE IF parameter.value = Undefined THEN Null
    ELSE IF ~IsArray(parameter.value) \/ Len(parameter.value.v) = 0 THEN Null
    ELSE LET value == parameter.value.v[1] IN
         IF value = Undefined THEN Null
         ELSE IF value.type = Undefined THEN Null
         ELSE IF value.type.shape = Undefined THEN Null
         ELSE IF value.type.shape.dimensions = Undefined THEN Null
         ELSE LET dims == value.type.shape.dimensions.v IN
              Array([i \in 1..Len(dims) |-> cleanDim(dims[i])])

(* ----------------------------- _computeConv ----------------------------- *)

\* inputs.length and outputs.length read without testing the lists first
_computeConvUnguarded(n) ==
    LET inputs == n.inputs
        outputs == n.outputs
    IN
    IF inputs = Undefined \/ outputs = Undefined THEN Throw
    ELSE IF Len(inputs.v) < 2 \/ Len(outputs.v) < 1 THEN Null
    ELSE LET weight == _getTensorShape(inputs.v[2])
             output == _getTensorShape(outputs.v[1])
         IN
         IF weight = Null \/ output = Null THEN Null
         ELSE IF Len(output.v) < 3 \/ Len(weight.v) < 3 THEN Null
         ELSE IF weight.v[1] = 0 THEN Null
         ELSE Number(reduceProduct(output.v)
                     * Divide(reduceProduct(weight.v), weight.v[1]))

_computeConv(n) ==
    LET inputs == n.inputs IN
    IF inputs = Undefined THEN Null
    ELSE IF Len(inputs.v) < 2 THEN Null
    ELSE LET weight == _getTensorShape(inputs.v[2])
             outputs == n.outputs
         IN
         IF outputs = Undefined THEN Null
         ELSE IF Len(outputs.v) < 1 THEN Null
         ELSE LET output == _getTensorShape(outputs.v[1]) IN
              IF weight = Null \/ output = Null THEN Null
              ELSE IF Len(output.v) < 3 \/ Len(weight.v) < 3 THEN Null
              ELSE LET outputElements == reduceProduct(output.v)
                       weightElements == reduceProduct(weight.v)
                       outChannels == weight.v[1]
                   IN
                   IF outChannels = 0 THEN Null
                   ELSE LET kernelSize == Divide(weightElements, outChannels)
                        IN Number(outputElements * kernelSize)

(* ---------------------------- _computeLinear ---------------------------- *)

\* the matmul branch taken by every dense node the linear branch did not
\* answer
_computeLinearFallThrough(n) ==
    LET inputs == n.inputs
        outputs == n.outputs
    IN
    IF inputs = Undefined THEN Null
    ELSE IF Len(inputs.v) < 2 THEN Null
    ELSE IF outputs = Undefined THEN Null
    ELSE IF Len(outputs.v) < 1 THEN Null
    ELSE LET input1 == _getTensorShape(inputs.v[2])
             output == _getTensorShape(outputs.v[1])
         IN
         IF output = Null THEN Null
         ELSE IF input1 = Null THEN Null
         ELSE LET name == normalize(n.type.name.v) IN
              IF name = linear /\ Len(input1.v) >= 2
              THEN Number(reduceProduct(output.v) * input1.v[2])
              ELSE LET input0 == _getTensorShape(inputs.v[1]) IN
                   IF input0 # Null /\ Len(input0.v) > 0
                   THEN Number(reduceProduct(output.v) * input0.v[Len(input0.v)])
                   ELSE Null

_computeLinear(n) ==
    LET inputs == n.inputs
        outputs == n.outputs
    IN
    IF inputs = Undefined THEN Null
    ELSE IF Len(inputs.v) < 2 THEN Null
    ELSE IF outputs = Undefined THEN Null
    ELSE IF Len(outputs.v) < 1 THEN Null
    ELSE LET input1 == _getTensorShape(inputs.v[2])
             output == _getTensorShape(outputs.v[1])
         IN
         IF output = Null THEN Null
         ELSE IF input1 = Null THEN Null
         ELSE LET name == normalize(n.type.name.v) IN
              IF name = linear /\ Len(input1.v) >= 2
              THEN Number(reduceProduct(output.v) * input1.v[2])
              ELSE IF name = matmul \/ name = gemm
              THEN LET input0 == _getTensorShape(inputs.v[1]) IN
                   IF input0 # Null /\ Len(input0.v) > 0
                   THEN Number(reduceProduct(output.v) * input0.v[Len(input0.v)])
                   ELSE Null
              ELSE Null

(* ------------------------------- calculate ------------------------------ *)

\* a name that begins with a supported name taken for it
StartsWith(s, t) == Len(s) >= Len(t) /\ SubSeq(s, 1, Len(t)) = t

calculatePrefixMatch(n) ==
    IF n = Undefined THEN Null
    ELSE IF n.type = Undefined THEN Null
    ELSE IF n.type.name = Undefined THEN Null
    ELSE IF n.type.name.v = <<>> THEN Null
    ELSE LET name == normalize(n.type.name.v) IN
         IF \E t \in {conv2d, conv, convolution, conv1d, conv3d} : StartsWith(name, t)
         THEN _computeConv(n)
         ELSE IF \E t \in {linear, gemm, matmul} : StartsWith(name, t)
         THEN _computeLinear(n)
         ELSE Null

calculate(n) ==
    IF n = Undefined THEN Null
    ELSE IF n.type = Undefined THEN Null
    ELSE IF n.type.name = Undefined THEN Null
    ELSE IF n.type.name.v = <<>> THEN Null
    ELSE LET name == normalize(n.type.name.v) IN
         IF name \in {conv2d, conv, convolution, conv1d, conv3d}
         THEN _computeConv(n)
         ELSE IF name \in {linear, gemm, matmul}
         THEN _computeLinear(n)
         ELSE Null

(* ------------------------------ the nodes ------------------------------- *)

Value(type) == [k |-> "value", type |-> type]
TensorType(shape) == [k |-> "type", shape |-> shape]
Shape(dimensions) == [k |-> "shape", dimensions |-> dimensions]
Argument(value) == [k |-> "argument", value |-> value]
Attribute(name, value) == [name |-> name, value |-> value]
NodeType(name) == [k |-> "nodetype", name |-> name]
Node(type, inputs, outputs, attributes) ==
    [k |-> "node", type |-> type, inputs |-> inputs, outputs |-> outputs,
     attributes |-> attributes]

\* an Argument bound to one tensor with the declared dimensions dims
ShapeArg(dims) == Argument(Array(<<Value(TensorType(Shape(Array(dims))))>>))

(* ------------------------ the caller's view of a call ------------------- *)

\* the sanitized dimensions written back into the operands' shapes
CleanedArg(a) ==
    IF _getTensorShape(a) = Null THEN a
    ELSE ShapeArg([i \in 1..Len(_getTensorShape(a).v) |-> Number(_getTensorShape(a).v[i])])

CleanedList(list) ==
    IF list = Undefined THEN Undefined
    ELSE Array([i \in 1..Len(list.v) |-> CleanedArg(list.v[i])])

nodeCleanedInPlace(n) ==
    IF n = Undefined THEN n
    ELSE [n EXCEPT !.inputs = CleanedList(n.inputs), !.outputs = CleanedList(n.outputs)]

\* calculate only reads its argument: the shape extractor builds cleanDims
\* with dims.map, a new array, and nothing is assigned to the node.
nodeAfterCalculate(n) == n

\* the ways an operand can be missing
MissingArgs ==
    { Undefined,
      Argument(Undefined),
      Argument(Array(<<>>)),
      Argument(Value(TensorType(Shape(Array(<<Number(2), Number(2), Number(2)>>))))),
      Argument(Array(<<Undefined>>)),
      Argument(Array(<<Value(Undefined)>>)),
      Argument(Array(<<Value(TensorType(Undefined))>>)),
      Argument(Array(<<Value(TensorType(Shape(Undefined)))>>)) }

NoShapeArg == Argument(Array(<<Value(TensorType(Undefined))>>))

SeqsUpTo(S, n) == UNION { [1..m -> S] : m \in 0..n }

Dynamic == String(<<"N">>)

\* dimensions of the cost cases: zero, a size, a symbolic name
CostDims == { Number(0), Number(2), Dynamic }

\* dimensions of the sanitizing cases
AnyDims == { Number(-1), Number(0), Number(3), Dynamic, Undefined,
             Long(3), Long(-2), Object }

CostArgs == { ShapeArg(d) : d \in SeqsUpTo(CostDims, MaxRank) } \cup { NoShapeArg }

FewArgs == { ShapeArg(<<Number(2), Number(2), Number(3)>>),
             ShapeArg(<<Number(0), Number(2), Number(2)>>),
             ShapeArg(<<Number(3), Number(2)>>),
             ShapeArg(<<Dynamic, Dynamic, Dynamic>>),
             NoShapeArg }

FewOutputs == { ShapeArg(<<Number(2), Number(2), Number(3)>>),
                ShapeArg(<<Dynamic, Dynamic, Dynamic>>),
                NoShapeArg }

Str(s) == NodeType(String(s))

TConv == Str(<<"C", "o", "n", "v">>)
TLinear == Str(<<"a", "t", "e", "n", ":", ":", "l", "i", "n", "e", "a", "r">>)
TMatMul == Str(<<"M", "a", "t", "M", "u", "l">>)
TGemm == Str(<<"G", "e", "m", "m">>)

FamilyTypes == { TConv, TLinear, TMatMul, TGemm }

NameStrings ==
    { <<"C", "o", "n", "v">>,
      <<"c", "o", "n", "v", "2", "d">>,
      <<"C", "o", "n", "v", "2", "d">>,
      <<"C", "O", "N", "V", "2", "D">>,
      <<"n", "s", ":", ":", "C", "o", "n", "v", "2", "d">>,
      <<"a", ":", ":", "b", ":", ":", "c", "o", "n", "v", "2", "d">>,
      <<"C", "o", "n", "v", "1", "d">>,
      <<"c", "o", "n", "v", "3", "d">>,
      <<"C", "o", "n", "v", "o", "l", "u", "t", "i", "o", "n">>,
      <<"L", "i", "n", "e", "a", "r">>,
      <<"l", "i", "n", "e", "a", "r">>,
      <<"a", "t", "e", "n", ":", ":", "l", "i", "n", "e", "a", "r">>,
      <<"G", "e", "m", "m">>,
      <<"G", "E", "M", "M">>,
      <<"M", "a", "t", "M", "u", "l">>,
      <<"m", "a", "t", "m", "u", "l">>,
      <<"o", "n", "n", "x", ":", ":", "M", "a", "t", "M", "u", "l">>,
      <<"R", "e", "l", "u">>,
      <<"c", "o", "n", "v", "2", "d", "_", "t", "r", "a", "n", "s", "p", "o", "s", "e">>,
      <<"c", "o", "n">>,
      <<"C", "o", "n", "v", ":", ":", "R", "e", "l", "u">>,
      <<"C", "o", "n", "v", ":", ":">>,
      <<"n", "s", ":", "C", "o", "n", "v">>,
      <<>> }

NameTypes == { Str(s) : s \in NameStrings } \cup { NodeType(Undefined), Undefined }

NoAttributes == Array(<<>>)
Groups == Array(<<Attribute("groups", <<2>>)>>)

\* the formulas that read the weight, on every pair of weight and output
\* shapes
CostNodes ==
    { Node(t, Array(<<ShapeArg(<<Number(2), Number(3)>>), w>>), Array(<<o>>), NoAttributes) :
        t \in { TConv, TLinear }, w \in CostArgs, o \in CostArgs }

\* every spelling of the type name
NameNodes ==
    { Node(t, Array(<<ShapeArg(<<Number(2), Number(3)>>), w>>), Array(<<o>>), NoAttributes) :
        t \in NameTypes, w \in FewArgs, o \in FewArgs }

\* every first input and the groups attribute
InputNodes ==
    { Node(t, Array(<<i, w>>), Array(<<o>>), a) :
        t \in FamilyTypes, i \in CostArgs \cup MissingArgs, w \in FewArgs,
        o \in FewOutputs, a \in { Undefined, Groups } }

\* every way an operand can be missing
OperandNodes ==
    { Node(t, i, o, NoAttributes) :
        t \in FamilyTypes,
        i \in { Undefined, Array(<<>>), Array(<<ShapeArg(<<Number(2), Number(3)>>)>>) }
              \cup { Array(<<ShapeArg(<<Number(2), Number(3)>>), w>>) : w \in MissingArgs \cup FewArgs },
        o \in { Undefined, Array(<<>>) } \cup { Array(<<x>>) : x \in MissingArgs \cup FewArgs } }

\* every kind of declared dimension
DimNodes ==
    { Node(t, Array(<<ShapeArg(<<Number(2), Number(3)>>), ShapeArg(w)>>),
           Array(<<ShapeArg(<<Number(2), Number(2), Number(2)>>)>>), NoAttributes) :
        t \in { TConv, TLinear }, w \in SeqsUpTo(AnyDims, MaxRank) }

Stride(x) == Attribute("stride", x)
Padding(x) == Attribute("padding", x)
Dilation(x) == Attribute("dilation", x)

\* convolutions of 4-dimensional inputs whose output has no declared shape,
\* next to the same nodes with a declared one
InferNodes ==
    UNION { { Node(t, Array(<<ShapeArg(<<Number(1), Number(3), Number(h), Number(h)>>),
                              ShapeArg(<<Number(c), Number(3), Number(kk), Number(kk)>>)>>),
                   Array(<<o>>), a) :
                t \in { TConv, Str(<<"a", "t", "e", "n", ":", ":", "c", "o", "n", "v", "2", "d">>) },
                kk \in { 1, 3 },
                o \in { NoShapeArg, Argument(Array(<<>>)),
                        ShapeArg(<<Number(1), Number(c), Number(h), Number(h)>>) },
                a \in { Undefined, NoAttributes,
                        Array(<<Padding(<<1, 1>>)>>),
                        Array(<<Stride(<<2>>)>>),
                        Array(<<Stride(<<1, 1>>), Padding(<<1, 1>>), Dilation(<<1, 1>>)>>),
                        Array(<<Padding(<<1, 0, 1, 0>>), Dilation(<<2, 2>>)>>) } } :
            h \in { 4, 5 }, c \in { 0, 2 } }

(* ---------------------------- the state machine ------------------------- *)

Init ==
    /\ \/ node \in CostNodes
       \/ node \in NameNodes
       \/ node \in InputNodes
       \/ node \in OperandNodes
       \/ node \in DimNodes
       \/ node \in InferNodes
       \/ node = Undefined
    /\ result = Undefined
    /\ prev = Undefined
    /\ pc = "idle"

\* the caller calls calculate(node) on a Calculator
Calculate ==
    /\ result' = calculate(node)
    /\ prev' = result
    /\ node' = nodeAfterCalculate(node)
    /\ pc' = "called"

Next == Calculate

Spec == Init /\ [][Next]_vars

(* ------------------------ vocabulary of the properties ------------------ *)

Called == pc = "called"

\* the operand in slot i of a list of Arguments, Undefined when there is none
Operand(list, i) ==
    IF list = Undefined THEN Undefined
    ELSE IF i <= Len(list.v) THEN list.v[i] ELSE Undefined

PrimaryInput(n) == IF n = Undefined THEN Undefined ELSE Operand(n.inputs, 1)
Weight(n) == IF n = Undefined THEN Undefined ELSE Operand(n.inputs, 2)
Output(n) == IF n = Undefined THEN Undefined ELSE Operand(n.outputs, 1)

\* the operand is bound to a tensor descriptor that declares a shape
HasShape(a) ==
    /\ a # Undefined
    /\ a.value # Undefined
    /\ a.value.k = "array"
    /\ Len(a.value.v) > 0
    /\ a.value.v[1] # Undefined
    /\ a.value.v[1].type # Undefined
    /\ a.value.v[1].type.shape # Undefined
    /\ a.value.v[1].type.shape.dimensions # Undefined

DeclaredDims(a) == a.value.v[1].type.shape.dimensions.v

IsNumeric(d) == d.k \in { "number", "long" }

\* the resolved shape: a numeric dimension is its value, any other is 1
Resolved(a) ==
    [i \in 1..Len(DeclaredDims(a)) |->
        IF IsNumeric(DeclaredDims(a)[i]) THEN DeclaredDims(a)[i].v ELSE 1]

RECURSIVE numel(_)
numel(shape) ==
    IF shape = <<>> THEN 1
    ELSE shape[Len(shape)] * numel(SubSeq(shape, 1, Len(shape) - 1))

\* the type name of a node, as a sequence of characters; <<>> when missing
TypeName(n) ==
    IF n = Undefined THEN <<>>
    ELSE IF n.type = Undefined THEN <<>>
    ELSE IF n.type.name = Undefined THEN <<>>
    ELSE n.type.name.v

SameLetter(a, b) ==
    \/ a = b
    \/ \E j \in 1..Len(UpperCase) : {a, b} = {UpperCase[j], LowerCase[j]}

EqualIgnoringCase(s, t) ==
    /\ Len(s) = Len(t)
    /\ \A i \in 1..Len(s) : SameLetter(s[i], t[i])

\* the positions at which a '::' starts
Separators(s) == { p \in 1..(Len(s) - 1) : s[p] = ":" /\ s[p + 1] = ":" }

\* the substring following the last '::'
AfterLastSeparator(s) ==
    IF Separators(s) = {} THEN s
    ELSE LET p == CHOOSE q \in Separators(s) : \A r \in Separators(s) : r <= q
         IN SubSeq(s, p + 2, Len(s))

Named(n, names) ==
    /\ TypeName(n) # <<>>
    /\ \E m \in names : EqualIgnoringCase(AfterLastSeparator(TypeName(n)), m)

ConvNames == { conv, conv1d, conv2d, conv3d, convolution }
DenseNames == { linear, gemm, matmul }

IsConvNode(n) == Named(n, ConvNames)
IsLinearNode(n) == Named(n, { linear })
IsMatMulNode(n) == Named(n, { gemm, matmul })
IsSupported(n) == Named(n, ConvNames \cup DenseNames)

(* ------------------------------ properties ------------------------------ *)

\* C1: a convolution-family node whose weight (second input) and first
\* output both have a resolved shape yields numel(output) * (numel(weight) /
\* weight[0]) when both shapes have at least 3 dimensions and weight[0] # 0,
\* and null otherwise; nothing but these two shapes enters the result.
C1_ConvCost ==
    (Called /\ IsConvNode(node) /\ HasShape(Weight(node)) /\ HasShape(Output(node)))
    => LET w == Resolved(Weight(node))
           o == Resolved(Output(node))
       IN IF Len(w) >= 3 /\ Len(o) >= 3 /\ w[1] # 0
          THEN /\ result.k = "number"
               /\ result.v * w[1] = numel(o) * numel(w)
          ELSE result = Null

\* a grouped convolution with first input [2,3], weight [2,2,3] and output
\* [2,2,3] has been costed 12 * 6 = 72
C1_Witness ==
    /\ Called
    /\ IsConvNode(node)
    /\ node.attributes = Groups
    /\ HasShape(Weight(node)) /\ HasShape(Output(node))
    /\ Resolved(Weight(node)) = <<2, 2, 3>>
    /\ Resolved(Output(node)) = <<2, 2, 3>>
    /\ result = Number(72)

\* C2: a linear node with a resolved output shape and a resolved weight
\* shape yields numel(output) * weight[1] when the weight has at least 2
\* dimensions and null when it has fewer.
C2_LinearCost ==
    (Called /\ IsLinearNode(node) /\ HasShape(Weight(node)) /\ HasShape(Output(node)))
    => LET w == Resolved(Weight(node))
           o == Resolved(Output(node))
       IN IF Len(w) >= 2
          THEN result = Number(numel(o) * w[2])
          ELSE result = Null

\* a linear node with weight [3,2] and output [2,2,3] has been costed 24
C2_Witness ==
    /\ Called
    /\ IsLinearNode(node)
    /\ HasShape(Weight(node)) /\ HasShape(Output(node))
    /\ Resolved(Weight(node)) = <<3, 2>>
    /\ Resolved(Output(node)) = <<2, 2, 3>>
    /\ result = Number(24)

\* a linear node whose weight has one dimension, next to a first input with
\* a shape, has been answered null
C2_WitnessShortWeight ==
    /\ Called
    /\ IsLinearNode(node)
    /\ HasShape(Weight(node)) /\ HasShape(Output(node)) /\ HasShape(PrimaryInput(node))
    /\ Len(Resolved(Weight(node))) = 1
    /\ result = Null

(* --- output-shape derivation of a convolution, as the specification words it --- *)

HasAttribute(n, name) ==
    /\ n.attributes # Undefined
    /\ \E i \in 1..Len(n.attributes.v) : n.attributes.v[i].name = name

AttributeValue(n, name) ==
    LET i == CHOOSE j \in 1..Len(n.attributes.v) :
                 /\ n.attributes.v[j].name = name
                 /\ \A l \in 1..(j - 1) : n.attributes.v[l].name # name
    IN n.attributes.v[i].value

\* a scalar is broadcast to both axes
Pair(x) == IF Len(x) = 1 THEN <<x[1], x[1]>> ELSE x

StrideOf(n) == IF HasAttribute(n, "stride") THEN Pair(AttributeValue(n, "stride")) ELSE <<1, 1>>
DilationOf(n) == IF HasAttribute(n, "dilation") THEN Pair(AttributeValue(n, "dilation")) ELSE <<1, 1>>

\* total padding per axis: twice the symmetric value, or begin + end
PaddingOf(n) ==
    IF ~HasAttribute(n, "padding") THEN <<0, 0>>
    ELSE LET x == AttributeValue(n, "padding") IN
         IF Len(x) = 4 THEN <<x[1] + x[3], x[2] + x[4]>>
         ELSE <<2 * Pair(x)[1], 2 * Pair(x)[2]>>

\* floor((In + Pad - Dilation * (K - 1) - 1) / Stride + 1)
OutSize(in, pad, dilation, kernel, stride) ==
    ((in + pad - dilation * (kernel - 1) - 1) \div stride) + 1

InferredOutput(n) ==
    LET x == Resolved(PrimaryInput(n))
        w == Resolved(Weight(n))
    IN << x[1], w[1],
          OutSize(x[3], PaddingOf(n)[1], DilationOf(n)[1], w[3], StrideOf(n)[1]),
          OutSize(x[4], PaddingOf(n)[2], DilationOf(n)[2], w[4], StrideOf(n)[2]) >>

\* the same node with the output shape declared as dims
WithOutput(n, dims) ==
    [n EXCEPT !.outputs = Array(<<ShapeArg([i \in 1..Len(dims) |-> Number(dims[i])])>>)]

\* C3: a convolution whose output has no declared shape, with a
\* 4-dimensional first input and a 4-dimensional weight, is costed as the
\* same node with the output shape [N, Cout, Hout, Wout] derived from input,
\* weight, stride, padding and dilation.
C3_InferredOutput ==
    (/\ Called /\ IsConvNode(node)
     /\ ~HasShape(Output(node))
     /\ HasShape(PrimaryInput(node)) /\ Len(Resolved(PrimaryInput(node))) = 4
     /\ HasShape(Weight(node)) /\ Len(Resolved(Weight(node))) = 4)
    => result = calculate(WithOutput(node, InferredOutput(node)))

\* C4: a matmul or gemm node with a resolved output shape and a resolved
\* first-input shape of at least 1 dimension yields numel(output) *
\* input[last], whether or not the second input has a shape.
C4_MatMulCost ==
    (/\ Called /\ IsMatMulNode(node)
     /\ HasShape(Output(node))
     /\ HasShape(PrimaryInput(node)) /\ Len(Resolved(PrimaryInput(node))) >= 1)
    => LET x == Resolved(PrimaryInput(node))
           o == Resolved(Output(node))
       IN result = Number(numel(o) * x[Len(x)])

\* C5: a node whose type name is missing, empty, or, after the last '::'
\* and in lower case, is none of the eight supported names yields null.
C5_Unsupported ==
    (Called /\ ~IsSupported(node)) => result = Null

\* "conv2d_transpose" with a weight and an output that would cost a
\* convolution has been answered null
C5_Witness ==
    /\ Called
    /\ Len(TypeName(node)) = 16
    /\ SubSeq(TypeName(node), 1, 6) = conv2d
    /\ HasShape(Weight(node)) /\ Resolved(Weight(node)) = <<2, 2, 3>>
    /\ HasShape(Output(node)) /\ Resolved(Output(node)) = <<2, 2, 3>>
    /\ result = Null

\* the same node under another type name
WithName(n, s) == [n EXCEPT !.type = Str(s)]

\* two names that differ only in letter case and in a namespace prefix
SameOperator(s, t) ==
    /\ s # <<>> /\ t # <<>>
    /\ EqualIgnoringCase(AfterLastSeparator(s), AfterLastSeparator(t))

\* C6: two nodes that differ only in the letter case or the namespace
\* prefix of their type names get the same result.
C6_CaseAndNamespace ==
    Called => \A s \in NameStrings :
                  SameOperator(s, TypeName(node)) => calculate(WithName(node, s)) = result

\* "CONV2D" has been costed, as a convolution, like "ns::Conv2d"
C6_Witness ==
    /\ Called
    /\ TypeName(node) = <<"C", "O", "N", "V", "2", "D">>
    /\ result = Number(72)
    /\ calculate(WithName(node, <<"n", "s", ":", ":", "C", "o", "n", "v", "2", "d">>)) = Number(72)

\* the weight or the output operand is missing
OperandMissing(n) == ~HasShape(Weight(n)) \/ ~HasShape(Output(n))

\* C7: a node of a supported family whose weight or output operand is
\* missing yields null; nothing is thrown.
C7_MissingOperand ==
    (Called /\ IsSupported(node) /\ OperandMissing(node)) => result = Null

\* a supported node without an inputs list has been answered null
C7_Witness ==
    /\ Called
    /\ IsConvNode(node)
    /\ node.inputs = Undefined
    /\ result = Null

\* the operand shapes the cost formula of the node's family reads have the
\* ranks it asks for
RanksSuffice(n) ==
    /\ HasShape(Weight(n)) /\ HasShape(Output(n))
    /\ IsConvNode(n) => Len(Resolved(Weight(n))) >= 3 /\ Len(Resolved(Output(n))) >= 3
    /\ IsLinearNode(n) => Len(Resolved(Weight(n))) >= 2
    /\ IsMatMulNode(n) => HasShape(PrimaryInput(n)) /\ Len(Resolved(PrimaryInput(n))) >= 1

IsDynamic(d) == ~IsNumeric(d)

AllDynamic(a) == \A i \in 1..Len(DeclaredDims(a)) : IsDynamic(DeclaredDims(a)[i])

\* the operand with every dynamic dimension set to the integer 1
UnitArg(a) ==
    IF HasShape(a)
    THEN ShapeArg([i \in 1..Len(DeclaredDims(a)) |->
                      IF IsDynamic(DeclaredDims(a)[i]) THEN Number(1) ELSE DeclaredDims(a)[i]])
    ELSE a

UnitList(list) ==
    IF list = Undefined THEN Undefined
    ELSE Array([i \in 1..Len(list.v) |-> UnitArg(list.v[i])])

UnitNode(n) == [n EXCEPT !.inputs = UnitList(n.inputs), !.outputs = UnitList(n.outputs)]

C10_NonNegative ==
    Called =>
        \A a \in { PrimaryInput(node), Weight(node), Output(node) } :
            _getTensorShape(a) # Null
            => \A i \in 1..Len(_getTensorShape(a).v) : _getTensorShape(a).v[i] >= 0

====
